---- MODULE Spec2Model ----
(***************************************************************************)
(* The scaffolder DatabaseTaskStore: the `tasks` table, the `task_events`  *)
(* table and the operations that read and write them.  Every statement a   *)
(* method awaits is one atomic step, so callers interleave between the     *)
(* select and the conditional update of a transaction, as they do on a     *)
(* read-committed store.  The update and the insert that one transaction   *)
(* commits together become visible in one step.                            *)
(***************************************************************************)
EXTENDS Integers, Sequences, FiniteSets, TLC

\* ----------------------------------------------------------------- bounds
\* createTask hands out the first MaxCreate task ids.
MaxCreate == 1
\* The clock stops at MaxTime.
MaxTime == 1
\* Callers append log and cancelled events while the log holds fewer than
\* this many of them.
MaxEmit == 1
\* Callers start a completion while the completion events in the log and the
\* completions under way are fewer than this.
MaxCompletions == 2
\* The longest event log a specification starts from.
MaxInitEvents == 3

\* The task ids callers name, with a row or without one, and the callers.
TaskIds == {1, 2}
Procs == {1, 2}
Times == 0..MaxTime

\* ------------------------------------------------------------- value sets
Null == "null"
NullTime == 0 - 1

\* TaskStatus of ./types, as the store uses it.
TaskStatus == {"open", "processing", "completed", "failed", "cancelled"}

\* The secrets a caller hands to createTask: none, or some object.
SecretsIn == {Null, "s1"}

StepIds == {"A", "B"}

\* A row of the tasks table (RawDbTaskRow), cut to the columns the store
\* branches on or writes after the insert.
TaskRow(st, sec, hb) == [status |-> st, secrets |-> sec, last_heartbeat_at |-> hb]

\* An event body: a JSON object with a message and, for step events, a
\* stepId and a status.
Body(msg, step, st) == [message |-> msg, stepId |-> step, status |-> st]

\* A row of the task_events table (RawDbTaskEventRow).
EventRow(i, t, ty, b) == [id |-> i, task_id |-> t, event_type |-> ty, body |-> b]

\* The bodies callers emit through emitLogEvent: a plain log line or a step
\* status update.
LogBodies ==
  {Body("log", Null, Null)}
    \cup {Body("log", s, st) : s \in StepIds, st \in {"processing", "completed", "failed"}}

\* The eventBody a caller hands to completeTask.
CompletionBodies == {Body("done", Null, Null), Body("error", Null, Null)}

\* The body handed to cancelTask.
CancelBody == Body("cancel", Null, Null)

\* shutdownTask's message.
StaleMessage == "stale"

VARIABLES tasks, task_events, now, proc

vars == <<tasks, task_events, now, proc>>

\* A caller between calls: the last call's name and outcome stay on record
\* until its next call.
NoTask == [id |-> 0, status |-> Null, secrets |-> Null, last_heartbeat_at |-> NullTime]
Res(kind, val) == [kind |-> kind, val |-> val]
NoRes == Res("none", 0)
Idle(op, res) ==
  [pc |-> "idle", op |-> op, taskId |-> 0, status |-> Null, eventBody |-> Body(Null, Null, Null),
   task |-> NoTask, steps |-> <<>>, result |-> res]

Init ==
  /\ tasks = <<>>
  /\ task_events = <<>>
  /\ now = 0
  /\ proc = [p \in Procs |-> Idle("none", NoRes)]

IsIdle(p) == proc[p].pc = "idle"

\* The server-side clock moves on.
Tick ==
  /\ now < MaxTime
  /\ now' = now + 1
  /\ UNCHANGED <<tasks, task_events, proc>>

\* createTask: a fresh id, status open, the secrets as given.
CreateTask(p, secrets) ==
  /\ IsIdle(p)
  /\ Len(tasks) < MaxCreate
  /\ LET taskId == Len(tasks) + 1 IN
       /\ tasks' = Append(tasks, TaskRow("open", secrets, NullTime))
       /\ proc' = [proc EXCEPT ![p] = Idle("createTask", Res("taskId", taskId))]
  /\ UNCHANGED <<task_events, now>>

\* A caller inside a call: where it stands and what it holds.
InCall(pc, op, t, st, body, task, steps) ==
  [pc |-> pc, op |-> op, taskId |-> t, status |-> st, eventBody |-> body,
   task |-> task, steps |-> steps, result |-> NoRes]

\* What a select of a row hands back: the row with its id, or no row.
Selected(t) ==
  IF t \in DOMAIN tasks
    THEN [id |-> t, status |-> tasks[t].status, secrets |-> tasks[t].secrets,
          last_heartbeat_at |-> tasks[t].last_heartbeat_at]
    ELSE NoTask

\* An insert into task_events: the store assigns the next id.
InsertEvent(events, t, ty, b) == Append(events, EventRow(Len(events) + 1, t, ty, b))

\* -------------------------------------------------------------- claimTask
\* where({ status: 'open' }) of the select.
ClaimSelectWhere(row) == row.status = "open"

\* Mutant: the update matches on the id alone.
ClaimUpdateCountAnyStatus(t) ==
  IF t \in DOMAIN tasks THEN 1 ELSE 0

\* where({ id: task.id, status: 'open' }) of the update: the rows it matches.
ClaimUpdateCount(t) ==
  IF t \in DOMAIN tasks /\ tasks[t].status = "open" THEN 1 ELSE 0

\* The select: one arbitrary open row, or none and the call is over.
ClaimSelect(p) ==
  /\ IsIdle(p)
  /\ \/ /\ \E t \in DOMAIN tasks :
             /\ ClaimSelectWhere(tasks[t])
             /\ proc' = [proc EXCEPT ![p] =
                  InCall("claim_update", "claimTask", t, Null, Body(Null, Null, Null), Selected(t), <<>>)]
     \/ /\ \A t \in DOMAIN tasks : ~ClaimSelectWhere(tasks[t])
        /\ proc' = [proc EXCEPT ![p] = Idle("claimTask", Res("undefined", 0))]
  /\ UNCHANGED <<tasks, task_events, now>>

\* The conditional update, and the task as it was selected when it matched.
\* A call that returns no task keeps on record the id its update missed.
ClaimUpdate(p) ==
  /\ proc[p].pc = "claim_update"
  /\ LET task == proc[p].task IN
       IF ClaimUpdateCount(task.id) < 1
         THEN /\ proc' = [proc EXCEPT ![p] = Idle("claimTask", Res("undefined", task.id))]
              /\ UNCHANGED tasks
         ELSE /\ tasks' = [tasks EXCEPT ![task.id] = TaskRow("processing", Null, now)]
              /\ proc' = [proc EXCEPT ![p] = Idle("claimTask",
                   Res("task", [id |-> task.id, status |-> "processing", secrets |-> task.secrets]))]
  /\ UNCHANGED <<task_events, now>>

\* ---------------------------------------------------------- heartbeatTask
\* Mutant: the update matches on the id alone.
HeartbeatUpdateCountAnyStatus(t) ==
  IF t \in DOMAIN tasks THEN 1 ELSE 0

\* where({ id: taskId, status: 'processing' }): the rows the update matches.
HeartbeatUpdateCount(t) ==
  IF t \in DOMAIN tasks /\ tasks[t].status = "processing" THEN 1 ELSE 0

HeartbeatTask(p, t) ==
  /\ IsIdle(p)
  /\ IF HeartbeatUpdateCount(t) = 0
       THEN /\ proc' = [proc EXCEPT ![p] = Idle("heartbeatTask", Res("Conflict", 0))]
            /\ UNCHANGED tasks
       ELSE /\ tasks' = [tasks EXCEPT ![t].last_heartbeat_at = now]
            /\ proc' = [proc EXCEPT ![p] = Idle("heartbeatTask", Res("ok", 0))]
  /\ UNCHANGED <<task_events, now>>

\* --------------------------------------------------------- listStaleTasks
\* Mutant: the heartbeat has to be strictly before now - timeoutS.
StaleWhereStrict(row, timeoutS) ==
  /\ row.status = "processing"
  /\ row.last_heartbeat_at # NullTime
  /\ row.last_heartbeat_at < now - timeoutS

\* Mutant: the status filter names open tasks.
StaleWhereOpen(row, timeoutS) ==
  /\ row.status = "open"
  /\ row.last_heartbeat_at # NullTime
  /\ row.last_heartbeat_at <= now - timeoutS

\* where('status', 'processing').andWhere('last_heartbeat_at', '<=', now - timeoutS);
\* a comparison with a NULL heartbeat matches nothing.
StaleWhere(row, timeoutS) ==
  /\ row.status = "processing"
  /\ row.last_heartbeat_at # NullTime
  /\ row.last_heartbeat_at <= now - timeoutS

ListStaleTasks(p, timeoutS) ==
  /\ IsIdle(p)
  /\ proc' = [proc EXCEPT ![p] = Idle("listStaleTasks",
       Res("tasks", {t \in DOMAIN tasks : StaleWhere(tasks[t], timeoutS)}))]
  /\ UNCHANGED <<tasks, task_events, now>>

\* ----------------------------------------------------------- emitLogEvent
\* The log and cancelled events appended so far.
Emitted == Cardinality({i \in 1..Len(task_events) : task_events[i].event_type # "completion"})

EmitLogEvent(p, t, body) ==
  /\ IsIdle(p)
  /\ t \in DOMAIN tasks
  /\ Emitted < MaxEmit
  /\ task_events' = InsertEvent(task_events, t, "log", body)
  /\ proc' = [proc EXCEPT ![p] = Idle("emitLogEvent", Res("ok", 0))]
  /\ UNCHANGED <<tasks, now>>

\* ------------------------------------------------------------- cancelTask
\* Mutant: the signal also writes the status.
CancelTaskSetsStatus(p, t, body) ==
  /\ IsIdle(p)
  /\ t \in DOMAIN tasks
  /\ Emitted < MaxEmit
  /\ task_events' = InsertEvent(task_events, t, "cancelled", body)
  /\ tasks' = [tasks EXCEPT ![t].status = "cancelled"]
  /\ proc' = [proc EXCEPT ![p] = Idle("cancelTask", Res("ok", 0))]
  /\ UNCHANGED now

CancelTask(p, t, body) ==
  /\ IsIdle(p)
  /\ t \in DOMAIN tasks
  /\ Emitted < MaxEmit
  /\ task_events' = InsertEvent(task_events, t, "cancelled", body)
  /\ proc' = [proc EXCEPT ![p] = Idle("cancelTask", Res("ok", 0))]
  /\ UNCHANGED <<tasks, now>>

\* ------------------------------------------------------------- listEvents
\* where({ task_id }).andWhere(id > after OR event_type = 'completion'); the
\* second clause is there only when after is a number.
NoAfter == 0 - 1

\* Mutant: with after given, only the events past it.
ListEventsWhereAfterOnly(e, taskId, after) ==
  /\ e.task_id = taskId
  /\ (after # NoAfter) => e.id > after

ListEventsWhere(e, taskId, after) ==
  /\ e.task_id = taskId
  /\ (after # NoAfter) => (e.id > after \/ e.event_type = "completion")

\* orderBy('id'): the table is kept in insertion order, which is id order.
SelectEvents(events, taskId, after) ==
  SelectSeq(events, LAMBDA e : ListEventsWhere(e, taskId, after))

ListEvents(p, t, after) ==
  /\ IsIdle(p)
  /\ proc' = [proc EXCEPT ![p] = Idle("listEvents",
       Res("events", [after |-> after, events |-> SelectEvents(task_events, t, after)]))]
  /\ UNCHANGED <<tasks, task_events, now>>

\* ----------------------------------------------------------- completeTask
RECURSIVE CountType(_, _)
CountType(events, ty) ==
  IF events = <<>> THEN 0
  ELSE (IF Head(events).event_type = ty THEN 1 ELSE 0) + CountType(Tail(events), ty)

\* The completion events in the log plus the calls that may still add one.
CompletionsStarted ==
  CountType(task_events, "completion")
    + Cardinality({q \in Procs : proc[q].pc \in {"shutdown_emit", "complete_update"}})

\* Mutant: every status is taken as a completion status.
AnyCompletionStatus(status) == status \in TaskStatus

\* ['failed', 'completed', 'cancelled'].includes(status)
ValidCompletionStatus(status) == status \in {"failed", "completed", "cancelled"}

\* Mutant: the where clause of updateTask names the id alone.
UpdateTaskCountIdOnly(t, criteriaStatus) ==
  IF t \in DOMAIN tasks THEN 1 ELSE 0

\* updateTask's where(criteria): the rows of the tasks table it matches.  The
\* criteria always name the id; status is Null when they name no status.
UpdateTaskCount(t, criteriaStatus) ==
  IF /\ t \in DOMAIN tasks
     /\ (criteriaStatus # Null => tasks[t].status = criteriaStatus)
    THEN 1
    ELSE 0

\* Mutant: the test of the selected status against oldStatus is inverted.
CompleteDecisionInverted(status, task) ==
  IF status = "cancelled" THEN [do |-> "update", criteriaStatus |-> Null]
  ELSE IF task = NoTask THEN [do |-> "TypeError", criteriaStatus |-> Null]
  ELSE IF task.status = "cancelled" THEN [do |-> "return", criteriaStatus |-> Null]
  ELSE IF task.status = "processing" THEN [do |-> "Conflict", criteriaStatus |-> Null]
  ELSE [do |-> "update", criteriaStatus |-> "processing"]

\* Mutant: no early return for a row selected as cancelled.
CompleteDecisionNoReturn(status, task) ==
  IF status = "cancelled" THEN [do |-> "update", criteriaStatus |-> Null]
  ELSE IF task = NoTask THEN [do |-> "TypeError", criteriaStatus |-> Null]
  ELSE IF task.status # "processing" THEN [do |-> "Conflict", criteriaStatus |-> Null]
  ELSE [do |-> "update", criteriaStatus |-> "processing"]

\* The criteria completeTask hands to updateTask for a target status, or
\* what it does instead of calling it, given the row it selected.
CompleteDecision(status, task) ==
  IF status = "cancelled" THEN [do |-> "update", criteriaStatus |-> Null]
  ELSE IF task = NoTask THEN [do |-> "TypeError", criteriaStatus |-> Null]
  ELSE IF task.status = "cancelled" THEN [do |-> "return", criteriaStatus |-> Null]
  ELSE IF task.status # "processing" THEN [do |-> "Conflict", criteriaStatus |-> Null]
  ELSE [do |-> "update", criteriaStatus |-> "processing"]

\* The call, up to the select inside the transaction.  A status that is no
\* completion status is refused before the transaction opens.
CompleteSelect(p, op, t, status, body) ==
  IF ~ValidCompletionStatus(status)
    THEN proc' = [proc EXCEPT ![p] = Idle(op, Res("Error", 0))]
    ELSE proc' = [proc EXCEPT ![p] =
           InCall("complete_update", op, t, status, body, Selected(t), <<>>)]

CompleteTask(p, t, status, body) ==
  /\ IsIdle(p)
  /\ CompletionsStarted < MaxCompletions
  /\ CompleteSelect(p, "completeTask", t, status, body)
  /\ UNCHANGED <<tasks, task_events, now>>

\* Mutant: the completion event is inserted whether or not the update
\* matched a row.
CompleteUpdateInsertsAlways(p) ==
  /\ proc[p].pc = "complete_update"
  /\ task_events' = InsertEvent(task_events, proc[p].taskId, "completion", proc[p].eventBody)
  /\ proc' = [proc EXCEPT ![p] = Idle(proc[p].op, Res("Conflict", proc[p].taskId))]
  /\ UNCHANGED <<tasks, now>>

\* The rest of the transaction: the early returns and throws, then
\* updateTask, whose update and insert commit together.  The ConflictError
\* of updateTask is told from the refusal before it by the taskId it names.
CompleteUpdate(p) ==
  /\ proc[p].pc = "complete_update"
  /\ LET pr == proc[p]
         d == CompleteDecision(pr.status, pr.task)
     IN  IF d.do = "update"
           THEN IF UpdateTaskCount(pr.taskId, d.criteriaStatus) # 1
                  THEN /\ proc' = [proc EXCEPT ![p] = Idle(pr.op, Res("Conflict", pr.taskId))]
                       /\ UNCHANGED <<tasks, task_events>>
                  ELSE /\ tasks' = [tasks EXCEPT ![pr.taskId].status = pr.status]
                       /\ task_events' = InsertEvent(task_events, pr.taskId, "completion", pr.eventBody)
                       /\ proc' = [proc EXCEPT ![p] = Idle(pr.op, Res("ok", 0))]
           ELSE /\ proc' = [proc EXCEPT ![p] =
                     Idle(pr.op, Res(IF d.do = "return" THEN "ok" ELSE d.do, 0))]
                /\ UNCHANGED <<tasks, task_events>>
  /\ UNCHANGED now

\* ----------------------------------------------------------- shutdownTask
\* statusStepEvents: the events whose body has a stepId.
StatusStepEvents(events) == SelectSeq(events, LAMBDA e : e.body.stepId # Null)

\* Mutant: only a completed step event counts.
CompletedStepsOnlyCompleted(events) ==
  {StatusStepEvents(events)[i].body.stepId :
     i \in {j \in 1..Len(StatusStepEvents(events)) :
              StatusStepEvents(events)[j].body.status = "completed"}}

\* completedSteps: the stepIds with a failed or completed step event.
CompletedSteps(events) ==
  {StatusStepEvents(events)[i].body.stepId :
     i \in {j \in 1..Len(StatusStepEvents(events)) :
              StatusStepEvents(events)[j].body.status \in {"failed", "completed"}}}

\* Whether a step event is one of a hung step: processing, and its step not completed.
IsHungProcessing(e, completedSteps) ==
  /\ e.body.status = "processing"
  /\ e.body.stepId \notin completedSteps

RECURSIVE MapStepId(_)
MapStepId(events) ==
  IF events = <<>> THEN <<>> ELSE <<Head(events).body.stepId>> \o MapStepId(Tail(events))

\* hungProcessingSteps: one entry per processing step event of a step that
\* is not among completedSteps, in event order.
HungProcessingSteps(events) ==
  MapStepId(SelectSeq(StatusStepEvents(events),
                      LAMBDA e : IsHungProcessing(e, CompletedSteps(events))))

\* The call, up to the listEvents it awaits.
ShutdownTask(p, t) ==
  /\ IsIdle(p)
  /\ CompletionsStarted < MaxCompletions
  /\ LET steps == HungProcessingSteps(SelectEvents(task_events, t, NoAfter)) IN
       proc' = [proc EXCEPT ![p] =
         InCall("shutdown_emit", "shutdownTask", t, "failed", Body(StaleMessage, Null, Null), NoTask, steps)]
  /\ UNCHANGED <<tasks, task_events, now>>

\* One turn of the loop over hungProcessingSteps: an emitLogEvent of its own.
ShutdownEmit(p) ==
  /\ proc[p].pc = "shutdown_emit"
  /\ proc[p].steps # <<>>
  /\ task_events' = InsertEvent(task_events, proc[p].taskId, "log",
                                Body(StaleMessage, Head(proc[p].steps), "failed"))
  /\ proc' = [proc EXCEPT ![p].steps = Tail(@)]
  /\ UNCHANGED <<tasks, now>>

\* After the loop: completeTask({ taskId, status: 'failed', eventBody: { message } }).
ShutdownComplete(p) ==
  /\ proc[p].pc = "shutdown_emit"
  /\ proc[p].steps = <<>>
  /\ CompleteSelect(p, "shutdownTask", proc[p].taskId, "failed", Body(StaleMessage, Null, Null))
  /\ UNCHANGED <<tasks, task_events, now>>

Next ==
  \/ Tick
  \/ \E p \in Procs, s \in SecretsIn : CreateTask(p, s)
  \/ \E p \in Procs : ClaimSelect(p)
  \/ \E p \in Procs : ClaimUpdate(p)
  \/ \E p \in Procs, t \in TaskIds : HeartbeatTask(p, t)
  \/ \E p \in Procs, t \in TaskIds, b \in LogBodies : EmitLogEvent(p, t, b)
  \/ \E p \in Procs, t \in TaskIds : CancelTask(p, t, CancelBody)
  \/ \E p \in Procs, t \in TaskIds, st \in TaskStatus, b \in CompletionBodies : CompleteTask(p, t, st, b)
  \/ \E p \in Procs : CompleteUpdate(p)
  \/ \E p \in Procs, t \in TaskIds : ShutdownTask(p, t)
  \/ \E p \in Procs : ShutdownEmit(p)
  \/ \E p \in Procs : ShutdownComplete(p)

\* The store from its construction on, under every interleaving of the
\* calls that write to it.  The queries listStaleTasks and listEvents write
\* nothing; SpecStale and SpecEvents below put them to stores of more tasks
\* and longer logs than callers build up here.
Spec == Init /\ [][Next]_vars

\* ------------------------------------------------------------ properties
Terminal == {"completed", "failed", "cancelled"}

CompletionEvents(t) ==
  {i \in 1..Len(task_events) :
     task_events[i].task_id = t /\ task_events[i].event_type = "completion"}

\* C2: once a task's status is completed, failed or cancelled, no step of
\* any operation changes it.
C2_TerminalIsFinal ==
  [][\A t \in DOMAIN tasks :
       tasks[t].status \in Terminal => tasks'[t].status = tasks[t].status]_vars

\* C3: an open task leaves open only for processing; no step takes it from
\* open to completed, failed or cancelled.
C3_OpenOnlyToProcessing ==
  [][\A t \in DOMAIN tasks :
       tasks[t].status = "open" => tasks'[t].status \in {"open", "processing"}]_vars

\* The step that ends a completeTask call of p which selected a row in
\* status `seen` and asked for one of the statuses `targets`.
CompleteTaskEnds(p, seen, targets) ==
  /\ CompleteUpdate(p)
  /\ proc[p].op = "completeTask"
  /\ proc[p].status \in targets
  /\ proc[p].task.status = seen

\* C4: completeTask to completed or failed on an open task fails with
\* Conflict and leaves tasks and events as they were; on a processing task
\* it succeeds, sets the status to the target and appends exactly one
\* completion event with the given eventBody.
C4_CompleteFromOpenOrProcessing ==
  [][\A p \in Procs :
       /\ CompleteTaskEnds(p, "open", {"completed", "failed"})
            => /\ proc'[p].result.kind = "Conflict"
               /\ tasks' = tasks
               /\ task_events' = task_events
       /\ ( /\ CompleteTaskEnds(p, "processing", {"completed", "failed"})
            /\ tasks[proc[p].taskId].status = "processing" )
            => /\ proc'[p].result.kind = "ok"
               /\ tasks' = [tasks EXCEPT ![proc[p].taskId].status = proc[p].status]
               /\ Len(task_events') = Len(task_events) + 1
               /\ SubSeq(task_events', 1, Len(task_events)) = task_events
               /\ task_events'[Len(task_events')].task_id = proc[p].taskId
               /\ task_events'[Len(task_events')].event_type = "completion"
               /\ task_events'[Len(task_events')].body = proc[p].eventBody]_vars

\* A completeTask met an open task with Conflict and another one completed
\* the task once it was processing.
C4_Witness ==
  \E p, q \in Procs :
    /\ proc[p].pc = "idle" /\ proc[p].op = "completeTask" /\ proc[p].result.kind = "Conflict"
    /\ proc[q].pc = "idle" /\ proc[q].op = "completeTask" /\ proc[q].result.kind = "ok"
    /\ \E t \in DOMAIN tasks :
         /\ tasks[t].status = "completed"
         /\ Cardinality(CompletionEvents(t)) = 1
         /\ \A i \in CompletionEvents(t) : task_events[i].body = Body("done", Null, Null)

\* C5: completeTask to cancelled on a task that is cancelled changes
\* nothing: no error, the same status, no further completion event.
C5_RecancelIsNoop ==
  [][\A p \in Procs :
       ( /\ CompleteTaskEnds(p, "cancelled", {"cancelled"})
         /\ tasks[proc[p].taskId].status = "cancelled" )
         => /\ proc'[p].result.kind = "ok"
            /\ tasks' = tasks
            /\ task_events' = task_events]_vars

\* C6: heartbeatTask on a task that is not processing, or on an id with no
\* row, fails with Conflict and changes nothing; on a processing task it
\* sets last_heartbeat_at to now and changes nothing else.
C6_Heartbeat ==
  [][\A p \in Procs, t \in TaskIds :
       HeartbeatTask(p, t) =>
         IF t \in DOMAIN tasks /\ tasks[t].status = "processing"
           THEN /\ proc'[p].result.kind = "ok"
                /\ tasks'[t].last_heartbeat_at = now
                /\ tasks'[t].status = tasks[t].status
                /\ tasks'[t].secrets = tasks[t].secrets
                /\ DOMAIN tasks' = DOMAIN tasks
                /\ \A u \in DOMAIN tasks : u # t => tasks'[u] = tasks[u]
                /\ task_events' = task_events
           ELSE /\ proc'[p].result.kind = "Conflict"
                /\ tasks' = tasks
                /\ task_events' = task_events]_vars

\* A heartbeat moved a processing task's last_heartbeat_at forward, and
\* another heartbeat met a conflict.
C6_Witness ==
  \E p, q \in Procs, t \in DOMAIN tasks :
    /\ proc[p].pc = "idle" /\ proc[p].op = "heartbeatTask" /\ proc[p].result.kind = "ok"
    /\ proc[q].pc = "idle" /\ proc[q].op = "heartbeatTask" /\ proc[q].result.kind = "Conflict"
    /\ tasks[t].status = "processing"
    /\ tasks[t].last_heartbeat_at = now
    /\ now > 0

\* C10: a task row holds secrets only while its status is open.
C10_SecretsOnlyWhileOpen ==
  \A t \in DOMAIN tasks : tasks[t].secrets # Null => tasks[t].status = "open"

\* ------------------------------------------------- racing claimTask calls
\* Rows a store can hold beside an open task at time n: tasks claimed
\* earlier, processing or finished since.
ClaimedRows(n) ==
  {TaskRow(st, Null, hb) : st \in {"processing"} \cup Terminal, hb \in 0..n}

OpenRows == {TaskRow("open", sec, NullTime) : sec \in SecretsIn}

\* The completion events of the finished tasks among rows, in id order.
RECURSIVE CompletionsOf(_, _)
CompletionsOf(rows, i) ==
  IF i > Len(rows) THEN <<>>
  ELSE IF rows[i].status \in Terminal
    THEN <<[task_id |-> i, event_type |-> "completion", body |-> Body("done", Null, Null)]>>
           \o CompletionsOf(rows, i + 1)
    ELSE CompletionsOf(rows, i + 1)

\* Numbers events in the order given, as the store's id sequence does.
WithIds(evs) ==
  [i \in 1..Len(evs) |-> EventRow(i, evs[i].task_id, evs[i].event_type, evs[i].body)]

\* A store holding exactly one open task, and callers that have called nothing.
InitClaimRace ==
  /\ now \in Times
  /\ \E n \in TaskIds :
       /\ tasks \in [1..n -> OpenRows \cup ClaimedRows(now)]
       /\ Cardinality({t \in 1..n : tasks[t].status = "open"}) = 1
  /\ task_events = WithIds(CompletionsOf(tasks, 1))
  /\ proc = [p \in Procs |-> Idle("none", NoRes)]

\* Each caller calls claimTask once.
NextClaimRace ==
  \/ \E p \in Procs : proc[p].op = "none" /\ ClaimSelect(p)
  \/ \E p \in Procs : ClaimUpdate(p)

SpecClaimRace == InitClaimRace /\ [][NextClaimRace]_vars

ClaimsDone == \A p \in Procs : proc[p].pc = "idle" /\ proc[p].op = "claimTask"

Claimers == {p \in Procs : proc[p].result.kind = "task"}

\* C1: of the claimTask calls racing for the one open task exactly one
\* returns it, with the secrets the row held, and the others return no
\* task; when all are done the row is processing with secrets null.
C1_OneClaimWins ==
  [][/\ \A p \in Procs :
          (ClaimUpdate(p) /\ proc'[p].result.kind = "task")
            => /\ tasks[proc'[p].result.val.id].status = "open"
               /\ proc'[p].result.val.secrets = tasks[proc'[p].result.val.id].secrets
     /\ ClaimsDone' =>
          /\ Cardinality(Claimers') = 1
          /\ \A p \in Procs \ Claimers' : proc'[p].result.kind = "undefined"
          /\ \A p \in Claimers' :
               /\ tasks'[proc'[p].result.val.id].status = "processing"
               /\ tasks'[proc'[p].result.val.id].secrets = Null
          /\ \A t \in DOMAIN tasks' : tasks'[t].status # "open"]_vars

\* Two calls selected the same open task with secrets; both are done, one
\* holds the task and its secrets.
C1_Witness ==
  /\ ClaimsDone
  /\ \E p, q \in Procs :
       /\ p # q
       /\ proc[p].result.kind = "task"
       /\ proc[p].result.val.secrets = "s1"
       /\ proc[q].result.kind = "undefined"
       /\ proc[q].result.val = proc[p].result.val.id

\* ---------------------------------------------------------- stale tasks
\* A store of tasks in any status, heartbeats at or before now, and callers
\* that have called nothing.
InitStale ==
  /\ now \in Times
  /\ \E n \in {0} \cup TaskIds : tasks \in [1..n -> OpenRows \cup ClaimedRows(now)]
  /\ task_events = WithIds(CompletionsOf(tasks, 1))
  /\ proc = [p \in Procs |-> Idle("none", NoRes)]

\* Workers claim and heartbeat, the clock moves, a supervisor lists the
\* stale tasks.
NextStale ==
  \/ Tick
  \/ \E p \in Procs : ClaimSelect(p)
  \/ \E p \in Procs : ClaimUpdate(p)
  \/ \E p \in Procs, t \in TaskIds : HeartbeatTask(p, t)
  \/ \E p \in Procs, timeoutS \in Times : ListStaleTasks(p, timeoutS)

SpecStale == InitStale /\ [][NextStale]_vars

\* The age of a row's heartbeat.
HeartbeatAge(row) == now - row.last_heartbeat_at

\* C7 as claimed: listStaleTasks returns exactly the processing tasks whose
\* heartbeat age is greater than timeoutS.
C7_StaleIffOlder ==
  [][\A p \in Procs, timeoutS \in Times :
       ListStaleTasks(p, timeoutS) =>
         proc'[p].result.val =
           {t \in DOMAIN tasks :
              tasks[t].status = "processing" /\ HeartbeatAge(tasks[t]) > timeoutS}]_vars

\* C7 as amended: listStaleTasks returns exactly the processing tasks whose
\* heartbeat age is timeoutS or more; a task whose heartbeat is exactly
\* timeoutS old is returned too.
C7_StaleIffAtLeast ==
  [][\A p \in Procs, timeoutS \in Times :
       ListStaleTasks(p, timeoutS) =>
         proc'[p].result.val =
           {t \in DOMAIN tasks :
              tasks[t].status = "processing" /\ HeartbeatAge(tasks[t]) >= timeoutS}]_vars

\* A listing with a positive timeout returned a task whose heartbeat is
\* exactly that old and left out a processing task with a younger one.
C7_Witness ==
  \E p \in Procs, t, u \in DOMAIN tasks :
    /\ proc[p].pc = "idle" /\ proc[p].op = "listStaleTasks"
    /\ proc[p].result.val = {t}
    /\ tasks[t].status = "processing" /\ HeartbeatAge(tasks[t]) = 1
    /\ tasks[u].status = "processing" /\ HeartbeatAge(tasks[u]) = 0

\* ------------------------------------------------------------- shutdown
\* What callers may have written to the log of a store with two claimed
\* tasks: any log lines and step events of task 1, step events of task 2.
ShutdownLogAlphabet ==
  {[task_id |-> 1, event_type |-> "log", body |-> b] : b \in LogBodies}
    \cup {[task_id |-> 2, event_type |-> "log", body |-> Body("log", "A", "processing")]}

\* Two processing tasks and a log of up to MaxInitEvents events.
InitShutdown ==
  /\ now = 0
  /\ tasks = [t \in 1..2 |-> TaskRow("processing", Null, 0)]
  /\ \E n \in 0..MaxInitEvents :
       \E evs \in [1..n -> ShutdownLogAlphabet] : task_events = WithIds(evs)
  /\ proc = [p \in Procs |-> Idle("none", NoRes)]

\* Supervisors shut task 1 down; the events of task 2 are in its way.
NextShutdown ==
  \/ \E p \in Procs : ShutdownTask(p, 1)
  \/ \E p \in Procs : ShutdownEmit(p)
  \/ \E p \in Procs : ShutdownComplete(p)
  \/ \E p \in Procs : CompleteUpdate(p)

SpecShutdown == InitShutdown /\ [][NextShutdown]_vars

\* The steps of task t with a step event of one of the statuses sts.
StepsWith(t, sts) ==
  {task_events[i].body.stepId :
     i \in {j \in 1..Len(task_events) :
              /\ task_events[j].task_id = t
              /\ task_events[j].body.stepId # Null
              /\ task_events[j].body.status \in sts}}

\* The steps of task t that are hung: a processing step event and no
\* completed or failed one.
HungSteps(t) == StepsWith(t, {"processing"}) \ StepsWith(t, {"completed", "failed"})

SeqRange(q) == {q[i] : i \in 1..Len(q)}

\* The synthetic events of task t in the log, by step.
ForcedFailed(t, step) ==
  {i \in 1..Len(task_events) :
     /\ task_events[i].task_id = t
     /\ task_events[i].event_type = "log"
     /\ task_events[i].body = Body(StaleMessage, step, "failed")}

\* C8: shutdownTask sets out to emit for exactly the hung steps of the task,
\* each turn of its loop appends one log event marking the next of them
\* failed, and once they are all emitted its completion, on a task that is
\* processing, sets the status to failed and appends the completion event.
C8_ShutdownFailsHungSteps ==
  [][\A p \in Procs :
       /\ \A t \in TaskIds :
            ShutdownTask(p, t) => SeqRange(proc'[p].steps) = HungSteps(t)
       /\ ShutdownEmit(p) =>
            /\ task_events' = Append(task_events,
                 EventRow(Len(task_events) + 1, proc[p].taskId, "log",
                          Body(StaleMessage, Head(proc[p].steps), "failed")))
            /\ proc'[p].steps = Tail(proc[p].steps)
            /\ tasks' = tasks
       /\ ShutdownComplete(p) => proc[p].steps = <<>> /\ tasks' = tasks /\ task_events' = task_events
       /\ ( /\ CompleteUpdate(p)
            /\ proc[p].op = "shutdownTask"
            /\ proc[p].task.status = "processing"
            /\ tasks[proc[p].taskId].status = "processing" )
            => /\ proc'[p].result.kind = "ok"
               /\ tasks' = [tasks EXCEPT ![proc[p].taskId].status = "failed"]
               /\ task_events' = Append(task_events,
                    EventRow(Len(task_events) + 1, proc[p].taskId, "completion",
                             Body(StaleMessage, Null, Null)))]_vars

\* The log [A:processing, B:processing, B:completed] of task 1 after one
\* shutdownTask: one forced failed event for A, none for B, the completion
\* event, status failed.
C8_Witness ==
  /\ Len(task_events) = 5
  /\ \A i \in 1..5 : task_events[i].task_id = 1
  /\ task_events[1].body = Body("log", "A", "processing")
  /\ task_events[2].body = Body("log", "B", "processing")
  /\ task_events[3].body = Body("log", "B", "completed")
  /\ ForcedFailed(1, "A") = {4}
  /\ ForcedFailed(1, "B") = {}
  /\ task_events[5].event_type = "completion"
  /\ tasks[1].status = "failed"
  /\ \E p \in Procs :
       proc[p].pc = "idle" /\ proc[p].op = "shutdownTask" /\ proc[p].result.kind = "ok"

\* ----------------------------------------------------------- listEvents
\* The events a log may hold, by task and type.
EventsLogAlphabet ==
  {[task_id |-> t, event_type |-> "log", body |-> Body("log", Null, Null)] : t \in TaskIds}
    \cup {[task_id |-> t, event_type |-> "cancelled", body |-> CancelBody] : t \in TaskIds}
    \cup {[task_id |-> t, event_type |-> "completion", body |-> Body("done", Null, Null)] : t \in TaskIds}

\* A store of claimed tasks and a log of up to MaxInitEvents events of any
\* type in any order; a task with a completion event is cancelled (the one
\* status a task can hold several completion events in), the others are
\* processing.
InitEvents ==
  /\ now = 0
  /\ \E n \in 0..MaxInitEvents :
       \E evs \in [1..n -> EventsLogAlphabet] :
         /\ task_events = WithIds(evs)
         /\ tasks = [t \in TaskIds |->
              TaskRow(IF \E i \in 1..n : evs[i].task_id = t /\ evs[i].event_type = "completion"
                        THEN "cancelled" ELSE "processing",
                      Null, 0)]
  /\ proc = [p \in Procs |-> Idle("none", NoRes)]

\* The cursors a reader may pass: none, or any id up to the longest log's last.
Afters == {NoAfter} \cup (0..MaxInitEvents)

\* A reader lists events.
Reader == CHOOSE p \in Procs : TRUE
NextEvents ==
  \E t \in TaskIds, after \in Afters : ListEvents(Reader, t, after)

SpecEvents == InitEvents /\ [][NextEvents]_vars

\* C9: listEvents returns, in ascending id order and each once, exactly the
\* events of the task with id > after and the completion events of the task
\* whatever their id; with no after, all events of the task; never an
\* event of another task.
C9_ListEvents ==
  [][\A p \in Procs, t \in TaskIds, after \in Afters :
       ListEvents(p, t, after) =>
         LET r == proc'[p].result.val.events IN
           /\ \A i, j \in 1..Len(r) : i < j => r[i].id < r[j].id
           /\ SeqRange(r) =
                {e \in SeqRange(task_events) :
                   /\ e.task_id = t
                   /\ \/ after = NoAfter
                      \/ e.id > after
                      \/ e.event_type = "completion"}]_vars

\* A listing with a cursor returned a completion event at or before the
\* cursor, left out an earlier log event of the same task, and the log
\* holds an event of another task past the cursor.
C9_Witness ==
  \E p \in Procs :
    /\ proc[p].pc = "idle" /\ proc[p].op = "listEvents"
    /\ LET r == proc[p].result.val.events
           after == proc[p].result.val.after
       IN  /\ after >= 1
           /\ Len(r) >= 1
           /\ r[1].event_type = "completion" /\ r[1].id <= after
           /\ \E e \in SeqRange(task_events) :
                e.task_id = r[1].task_id /\ e.id <= after /\ e.event_type = "log"
           /\ \E e \in SeqRange(task_events) : e.task_id # r[1].task_id /\ e.id > after

\* ----------------------------------------------------------- completion
\* A store of tasks in any status with the completion events of the
\* finished ones, and callers that have called nothing.
InitComplete ==
  /\ now = 0
  /\ \E n \in {0} \cup TaskIds : tasks \in [1..n -> OpenRows \cup ClaimedRows(now)]
  /\ task_events = WithIds(CompletionsOf(tasks, 1))
  /\ proc = [p \in Procs |-> Idle("none", NoRes)]

\* Workers claim tasks and complete them.
NextComplete ==
  \/ \E p \in Procs : ClaimSelect(p)
  \/ \E p \in Procs : ClaimUpdate(p)
  \/ \E p \in Procs, t \in TaskIds, st \in TaskStatus, b \in CompletionBodies : CompleteTask(p, t, st, b)
  \/ \E p \in Procs : CompleteUpdate(p)

SpecComplete == InitComplete /\ [][NextComplete]_vars

\* ---------------------------------------------------------- getTask, list
\* list(): every row, mapped to id, spec, status, createdBy, lastHeartbeatAt
\* and createdAt.  The mapping names no secrets.
ListRow(t) ==
  [id |-> t, status |-> tasks[t].status, lastHeartbeatAt |-> tasks[t].last_heartbeat_at]

List(p) ==
  /\ IsIdle(p)
  /\ proc' = [proc EXCEPT ![p] = Idle("list", Res("tasks", {ListRow(t) : t \in DOMAIN tasks}))]
  /\ UNCHANGED <<tasks, task_events, now>>

\* result.secrets ? JSON.parse(result.secrets) : undefined
GetTaskSecrets(row) == IF row.secrets # Null THEN row.secrets ELSE Null

\* getTask(taskId): NotFound when no row has the id, else the row with its
\* secrets as stored.
GetTask(p, t) ==
  /\ IsIdle(p)
  /\ proc' = [proc EXCEPT ![p] = Idle("getTask",
       IF t \notin DOMAIN tasks
         THEN Res("NotFound", 0)
         ELSE Res("task", [id |-> t, status |-> tasks[t].status,
                           secrets |-> GetTaskSecrets(tasks[t])]))]
  /\ UNCHANGED <<tasks, task_events, now>>

\* A store of open and claimed tasks, and callers that have called nothing.
InitSecrets == InitComplete

\* Workers claim tasks while readers look them up.
NextSecrets ==
  \/ \E p \in Procs : ClaimSelect(p)
  \/ \E p \in Procs : ClaimUpdate(p)
  \/ \E p \in Procs, t \in TaskIds : GetTask(p, t)
  \/ \E p \in Procs : List(p)

SpecSecrets == InitSecrets /\ [][NextSecrets]_vars

\* C11: getTask and list never return a secrets value that is not null, in
\* any status of the task; only a successful claimTask returns secrets.
C11_OnlyClaimReturnsSecrets ==
  \A p \in Procs :
    /\ (proc[p].op = "getTask" /\ proc[p].result.kind = "task")
         => proc[p].result.val.secrets = Null
    /\ (proc[p].op = "list" /\ proc[p].result.kind = "tasks")
         => \A r \in proc[p].result.val : "secrets" \notin DOMAIN r

\* ------------------------------------------- completeTask against shutdownTask
Worker == CHOOSE p \in Procs : TRUE
Supervisor == CHOOSE p \in Procs : p # Worker

\* The eventBody a worker reports its outcome with.
WorkerBody(st) == IF st = "completed" THEN Body("done", Null, Null) ELSE Body("error", Null, Null)

\* One processing task with a log of up to MaxInitEvents lines and step events.
InitRace ==
  /\ now = 0
  /\ tasks = <<TaskRow("processing", Null, 0)>>
  /\ \E n \in 0..MaxInitEvents :
       \E evs \in [1..n -> {[task_id |-> 1, event_type |-> "log", body |-> b] : b \in LogBodies}] :
         task_events = WithIds(evs)
  /\ proc = [p \in Procs |-> Idle("none", NoRes)]

\* The worker finishes the task while the supervisor shuts it down, each
\* with one call, their steps interleaved in every order.
NextRace ==
  \/ /\ proc[Worker].op = "none"
     /\ \E st \in {"completed", "failed"} : CompleteTask(Worker, 1, st, WorkerBody(st))
  \/ /\ proc[Supervisor].op = "none"
     /\ ShutdownTask(Supervisor, 1)
  \/ ShutdownEmit(Supervisor)
  \/ ShutdownComplete(Supervisor)
  \/ \E p \in Procs : CompleteUpdate(p)

SpecRace == InitRace /\ [][NextRace]_vars

RaceDone ==
  /\ proc[Worker].pc = "idle" /\ proc[Worker].op = "completeTask"
  /\ proc[Supervisor].pc = "idle" /\ proc[Supervisor].op = "shutdownTask"

\* C12: once a worker's completeTask to completed or failed and a
\* supervisor's shutdownTask of the same processing task have both ended,
\* exactly one of them succeeded and the other got Conflict, the status is
\* the target of the one that succeeded, and the task has exactly one
\* completion event, the winner's.
C12_CompletionRaceHasOneWinner ==
  RaceDone =>
    /\ {proc[Worker].result.kind, proc[Supervisor].result.kind} = {"ok", "Conflict"}
    /\ Cardinality(CompletionEvents(1)) = 1
    /\ \A i \in CompletionEvents(1) :
         IF proc[Worker].result.kind = "ok"
           THEN \E st \in {"completed", "failed"} :
                  task_events[i].body = WorkerBody(st) /\ tasks[1].status = st
           ELSE task_events[i].body = Body(StaleMessage, Null, Null) /\ tasks[1].status = "failed"

\* Both calls selected the task as processing; the supervisor's update came
\* first and the worker's update matched no row.
C12_Witness ==
  /\ RaceDone
  /\ proc[Supervisor].result.kind = "ok"
  /\ proc[Worker].result = Res("Conflict", 1)
  /\ tasks[1].status = "failed"

\* ------------------------------------------------------ completion events
\* C13: in every reachable state each task has at most one event of type
\* completion in the log.
C13_AtMostOneCompletion ==
  \A t \in DOMAIN tasks : Cardinality(CompletionEvents(t)) <= 1

\* ------------------------------------------------------------ supervision
\* What the workers wrote to the log before they stopped: step events of
\* task 1 and of task 2.
LiveLogAlphabet ==
  {[task_id |-> 1, event_type |-> "log", body |-> Body("log", "A", st)] : st \in {"processing", "completed"}}
    \cup {[task_id |-> t, event_type |-> "log", body |-> Body("log", "B", "processing")] : t \in TaskIds}

\* One or two tasks claimed at time 0 and not heartbeaten since.
InitLive ==
  /\ now = 0
  /\ \E n \in TaskIds : tasks = [t \in 1..n |-> TaskRow("processing", Null, 0)]
  /\ \E n \in 0..MaxInitEvents :
       \E evs \in [1..n -> LiveLogAlphabet] : task_events = WithIds(evs)
  /\ proc = [p \in Procs |-> Idle("none", NoRes)]

\* The tasks the supervisor's last listStaleTasks returned and it has not
\* yet shut down.
PendingShutdowns ==
  IF proc[Supervisor].op = "listStaleTasks" THEN proc[Supervisor].result.val ELSE {}

\* The supervisor's loop: listStaleTasks with a timeout of MaxTime, then
\* shutdownTask of what it returned, then listStaleTasks again.
SuperviseList ==
  /\ PendingShutdowns = {}
  /\ ListStaleTasks(Supervisor, MaxTime)

SuperviseShutdown ==
  \E t \in PendingShutdowns : ShutdownTask(Supervisor, t)

\* The worker sends no heartbeat; it may still report the end of task 1 once.
NextLive ==
  \/ Tick
  \/ SuperviseList
  \/ SuperviseShutdown
  \/ ShutdownEmit(Supervisor)
  \/ ShutdownComplete(Supervisor)
  \/ \E p \in Procs : CompleteUpdate(p)
  \/ /\ proc[Worker].op = "none"
     /\ \E st \in {"completed", "failed"} : CompleteTask(Worker, 1, st, WorkerBody(st))

\* Time passes, the supervisor keeps taking the steps of its loop, and a
\* statement sent to the database returns.
FairLive ==
  /\ WF_vars(Tick)
  /\ WF_vars(SuperviseList)
  /\ WF_vars(SuperviseShutdown)
  /\ WF_vars(ShutdownEmit(Supervisor))
  /\ WF_vars(ShutdownComplete(Supervisor))
  /\ \A p \in Procs : WF_vars(CompleteUpdate(p))

SpecLive == InitLive /\ [][NextLive]_vars /\ FairLive

\* C14: a processing task that gets no more heartbeats eventually has a
\* terminal status, given a supervisor that keeps listing the stale tasks
\* and shuts down every task listed.
C14_StaleTaskEndsTerminal ==
  \A t \in TaskIds :
    (t \in DOMAIN tasks /\ tasks[t].status = "processing")
      ~> (t \in DOMAIN tasks /\ tasks[t].status \in Terminal)

\* The supervisor found a task stale once its heartbeat was MaxTime old
\* and its shutdownTask failed the task.
C14_Witness ==
  /\ now = MaxTime
  /\ proc[Supervisor].pc = "idle" /\ proc[Supervisor].op = "shutdownTask"
  /\ proc[Supervisor].result.kind = "ok"
  /\ \E t \in DOMAIN tasks :
       /\ tasks[t].status = "failed"
       /\ \E i \in CompletionEvents(t) : task_events[i].body = Body(StaleMessage, Null, Null)

\* ------------------------------------------------- cancelTask, emitLogEvent
\* Callers signal a cancellation or write a log line to tasks in any status.
NextFrame ==
  \/ \E p \in Procs, t \in TaskIds, b \in LogBodies : EmitLogEvent(p, t, b)
  \/ \E p \in Procs, t \in TaskIds : CancelTask(p, t, CancelBody)

SpecFrame == InitComplete /\ [][NextFrame]_vars

\* The log after one event of type ty with body b for task t came in.
Appended(t, ty, b) == Append(task_events, EventRow(Len(task_events) + 1, t, ty, b))

\* C15: cancelTask appends exactly one event of type cancelled and
\* emitLogEvent exactly one of type log, for the task given, and both leave
\* every row of tasks as it was, in any status of the task.
C15_SignalsLeaveTasksAlone ==
  [][\A p \in Procs, t \in TaskIds :
       /\ \A b \in LogBodies :
            EmitLogEvent(p, t, b) => tasks' = tasks /\ task_events' = Appended(t, "log", b)
       /\ CancelTask(p, t, CancelBody)
            => tasks' = tasks /\ task_events' = Appended(t, "cancelled", CancelBody)]_vars

\* A cancelTask on a completed task: its event follows the completion
\* event and the task is still completed.
C15_Witness ==
  \E p \in Procs, t \in DOMAIN tasks :
    /\ proc[p].op = "cancelTask" /\ proc[p].result.kind = "ok"
    /\ tasks[t].status = "completed"
    /\ CompletionEvents(t) # {}
    /\ task_events[Len(task_events)] = EventRow(Len(task_events), t, "cancelled", CancelBody)

\* ------------------------------------------------- shutdownTask as a whole
\* The events shutdownTask wrote: they carry its message.
SyntheticEvents == {i \in 1..Len(task_events) : task_events[i].body.message = StaleMessage}

\* C16: a shutdownTask that ended with Conflict has left no event of its
\* own in the log; one that succeeded has moved the task to failed.
C16_ShutdownAllOrNothing ==
  (proc[Supervisor].pc = "idle" /\ proc[Supervisor].op = "shutdownTask")
    => IF proc[Supervisor].result.kind = "Conflict"
         THEN SyntheticEvents = {}
         ELSE tasks[1].status = "failed"

\* ------------------------------------------------ completing a cancelled task
\* The rows of cancelled tasks: cancelled while open, with the secrets they
\* were created with, or cancelled after their claim.
CancelledRows ==
  {TaskRow("cancelled", sec, NullTime) : sec \in SecretsIn}
    \cup {TaskRow("cancelled", Null, hb) : hb \in Times}

\* One or two cancelled tasks with their completion events, at any time.
InitCancelled ==
  /\ now \in Times
  /\ \E n \in TaskIds : tasks \in [1..n -> {r \in CancelledRows : r.last_heartbeat_at <= now}]
  /\ task_events = WithIds(CompletionsOf(tasks, 1))
  /\ proc = [p \in Procs |-> Idle("none", NoRes)]

\* Workers that did not see the cancellation report their outcome.
NextCancelled ==
  \/ \E p \in Procs, t \in TaskIds, st \in {"completed", "failed"}, b \in CompletionBodies :
       CompleteTask(p, t, st, b)
  \/ \E p \in Procs : CompleteUpdate(p)

SpecCancelled == InitCancelled /\ [][NextCancelled]_vars

\* C17: completeTask to completed or failed on a task that is cancelled
\* returns without error and leaves tasks and the event log as they were.
C17_CompleteCancelledIsNoop ==
  [][\A p \in Procs :
       CompleteTaskEnds(p, "cancelled", {"completed", "failed"})
         => /\ proc'[p].result.kind = "ok"
            /\ tasks' = tasks
            /\ task_events' = task_events]_vars

\* A completeTask on a cancelled task has returned; the task is cancelled
\* and has the one completion event it had.
C17_Witness ==
  \E p \in Procs :
    /\ proc[p].pc = "idle" /\ proc[p].op = "completeTask" /\ proc[p].result.kind = "ok"
    /\ \A t \in DOMAIN tasks :
         tasks[t].status = "cancelled" /\ Cardinality(CompletionEvents(t)) = 1

\* ------------------------------------------------------- status and events
\* The store from its construction on, under the calls that write a status
\* or a completion event.  shutdownTask writes both through completeTask.
NextLifecycle ==
  \/ \E p \in Procs, s \in SecretsIn : CreateTask(p, s)
  \/ \E p \in Procs : ClaimSelect(p)
  \/ \E p \in Procs : ClaimUpdate(p)
  \/ \E p \in Procs, t \in TaskIds, st \in TaskStatus, b \in CompletionBodies : CompleteTask(p, t, st, b)
  \/ \E p \in Procs : CompleteUpdate(p)

SpecLifecycle == Init /\ [][NextLifecycle]_vars

\* C18: in every reachable state a task has a terminal status exactly when
\* the log holds a completion event for it, and no completion event is
\* there for a task that does not exist.
C18_TerminalIffCompletionEvent ==
  /\ \A t \in DOMAIN tasks : tasks[t].status \in Terminal <=> CompletionEvents(t) # {}
  /\ \A i \in 1..Len(task_events) :
       task_events[i].event_type = "completion" => task_events[i].task_id \in DOMAIN tasks

\* A completeTask lost against another one: it ended with Conflict, and the
\* task has the status and the one completion event of the winner.
C18_Witness ==
  \E p, q \in Procs, t \in DOMAIN tasks :
    /\ proc[p].pc = "idle" /\ proc[p].result = Res("Conflict", t)
    /\ proc[q].pc = "idle" /\ proc[q].op = "completeTask" /\ proc[q].result.kind = "ok"
    /\ tasks[t].status \in Terminal
    /\ Cardinality(CompletionEvents(t)) = 1

\* ------------------------------------------------------------ one claim
\* The callers whose last call was a claimTask that returned task t.
HoldersOf(t) ==
  {p \in Procs : /\ proc[p].op = "claimTask" /\ proc[p].result.kind = "task"
                 /\ proc[p].result.val.id = t}

\* C19: a task is returned by at most one claimTask call in its lifetime.
\* No step takes a task that is not open back to open, a claimTask returns
\* a task only in the step that takes it from open to processing, and no
\* two callers hold the same task as the result of their claimTask.
C19_ClaimedAtMostOnce ==
  /\ [](\A t \in DOMAIN tasks : Cardinality(HoldersOf(t)) <= 1)
  /\ [][\A t \in DOMAIN tasks : tasks[t].status # "open" => tasks'[t].status # "open"]_vars
  /\ [][\A p \in Procs :
          (ClaimUpdate(p) /\ proc'[p].result.kind = "task")
            => /\ tasks[proc'[p].result.val.id].status = "open"
               /\ tasks'[proc'[p].result.val.id].status = "processing"]_vars

\* A task was claimed by one caller and has been finished; the claimTask
\* of the other caller returned nothing.
C19_Witness ==
  \E p, q \in Procs, t \in DOMAIN tasks :
    /\ HoldersOf(t) = {p}
    /\ tasks[t].status \in Terminal
    /\ proc[q].pc = "idle" /\ proc[q].op = "claimTask" /\ proc[q].result.kind = "undefined"

\* ------------------------------------------------ one forced event per step
\* C20: the one shutdownTask call of the supervisor appends at most one
\* forced-failed event per stepId, however many processing events the
\* step has in the log.
C20_OneForcedFailedPerStep ==
  \A step \in StepIds : Cardinality(ForcedFailed(1, step)) <= 1

====
